---- MODULE Spec2Model ----
(***************************************************************************)
(* Model of tools/rust_scanner/src/main.rs: a recursive directory scanner. *)
(*                                                                         *)
(* A string is a sequence of one-character strings, a path is a sequence   *)
(* of file names.  The file system is a function from the real paths below *)
(* the scan root to nodes.  scan_dir's recursion is an explicit stack of   *)
(* frames; one action is one step of the top frame.                        *)
(***************************************************************************)
EXTENDS Naturals, Integers, Sequences, FiniteSets, TLC

VARIABLES
  fs,          \* the file system below the root: real relative path -> node
  opts,        \* Opts: root, max_depth, follow_symlinks, exclude_dirs
  stack,       \* the active scan_dir calls, outermost first
  out,         \* the records the sink has accepted, in order
  sink,        \* the output sink: whether it ever fails, and the writes left
  writeFailed, \* a writeln! to the sink has returned Err
  listed,      \* history: the (path, depth) pairs fs::read_dir was called on
  exit,        \* whether the process has exited, and its exit code
  mIn,         \* the arguments of a should_exclude_dir call (matcher runs)
  mOut,        \* whether the call has returned, and its result
  changes      \* the changes other processes have made to the tree so far

vars == <<fs, opts, stack, out, sink, writeFailed, listed, exit, mIn, mOut,
          changes>>

scanVars == <<fs, opts, stack, out, sink, writeFailed, listed, exit>>

----------------------------------------------------------------------------
(* Bounds of the model.                                                    *)

\* max_depth is drawn from 0..MaxDepth
MaxDepth == 2

\* the sink fails on write k+1 for some k in 0..MaxAccept, or never
MaxAccept == 1

\* matcher runs: pattern lists of length 0..MaxPatterns
MaxPatterns == 2

\* racing runs: another process changes the tree at most MaxChanges times
MaxChanges == 1

----------------------------------------------------------------------------
(* Strings.                                                                *)

IsWhite(c) == c = " "

RECURSIVE TrimStart(_)
TrimStart(s) ==
  IF s # <<>> /\ IsWhite(Head(s)) THEN TrimStart(Tail(s)) ELSE s

RECURSIVE TrimEnd(_)
TrimEnd(s) ==
  IF s # <<>> /\ IsWhite(s[Len(s)]) THEN TrimEnd(SubSeq(s, 1, Len(s) - 1)) ELSE s

\* str::trim
Trim(s) == TrimEnd(TrimStart(s))

\* str::replace('\\', "/")
ReplaceBackslash(s) == [i \in 1..Len(s) |-> IF s[i] = "\\" THEN "/" ELSE s[i]]

\* str::ends_with
EndsWith(s, suf) ==
  /\ Len(suf) <= Len(s)
  /\ SubSeq(s, Len(s) - Len(suf) + 1, Len(s)) = suf

\* str::starts_with, Path::starts_with on component sequences
StartsWith(s, pre) ==
  /\ Len(pre) <= Len(s)
  /\ SubSeq(s, 1, Len(pre)) = pre

\* str::contains(char)
Contains(s, c) == \E i \in 1..Len(s) : s[i] = c

\* while s.ends_with('/') { s.pop(); }
RECURSIVE PopSlashes(_)
PopSlashes(s) ==
  IF EndsWith(s, <<"/">>) THEN PopSlashes(SubSeq(s, 1, Len(s) - 1)) ELSE s

\* if s.ends_with("/**") { s.truncate(s.len() - 3); }
TruncateGlob(s) ==
  IF EndsWith(s, <<"/", "*", "*">>) THEN SubSeq(s, 1, Len(s) - 3) ELSE s

\* let mut s = pat.trim().replace(..); then the two strippings, each applied
\* to the value the step before left in s
normalize_pattern_token(pat) ==
  CHOOSE s \in { PopSlashes(t) : t \in { TruncateGlob(r) :
                    r \in { ReplaceBackslash(Trim(pat)) } } } : TRUE

HasWildcard(token) ==
  Contains(token, "*") \/ Contains(token, "?") \/ Contains(token, "[")

\* a should_exclude_dir whose comparison forgets the root-relative path
TokenMatchesNameOnly(token, dir_name, rel_posix) ==
  /\ ~HasWildcard(token)
  /\ dir_name = token

\* a should_exclude_dir that compares tokens holding wildcard characters too
TokenMatchesLiteral(token, dir_name, rel_posix) ==
  \/ dir_name = token
  \/ rel_posix = token
  \/ StartsWith(rel_posix, token \o <<"/">>)

\* the body of should_exclude_dir's loop for a non-empty token
TokenMatches(token, dir_name, rel_posix) ==
  /\ ~HasWildcard(token)
  /\ \/ dir_name = token
     \/ rel_posix = token
     \/ StartsWith(rel_posix, token \o <<"/">>)

\* for pat in patterns, from index i on (the token is computed once per
\* pattern and bound)
RECURSIVE ExcludeFrom(_, _, _, _)
ExcludeFrom(i, dir_name, rel_posix, patterns) ==
  /\ i <= Len(patterns)
  /\ \E token \in { normalize_pattern_token(patterns[i]) } :
       IF token = <<>> THEN ExcludeFrom(i + 1, dir_name, rel_posix, patterns)
       ELSE IF TokenMatches(token, dir_name, rel_posix) THEN TRUE
       ELSE ExcludeFrom(i + 1, dir_name, rel_posix, patterns)

should_exclude_dir(dir_name, rel_posix, patterns) ==
  ExcludeFrom(1, dir_name, rel_posix, patterns)

\* parse_args, --exclude-dir: the trimmed value is kept unless it is blank
RECURSIVE ParseExcludeDirs(_)
ParseExcludeDirs(args) ==
  IF args = <<>> THEN <<>>
  ELSE LET v == Trim(Head(args))
       IN  IF v # <<>> THEN <<v>> \o ParseExcludeDirs(Tail(args))
           ELSE ParseExcludeDirs(Tail(args))

----------------------------------------------------------------------------
(* Paths and the file system.                                              *)

Front(s) == SubSeq(s, 1, Len(s) - 1)

Last(s) == s[Len(s)]

nA == <<"a">>

nB == <<"b">>

nW == <<"*">>

\* the places of the tree below the root; <<>> is the root directory itself
pRoot == <<>>

pA == <<nA>>

pAB == <<nA, nB>>

pABA == <<nA, nB, nA>>

pABAB == <<nA, nB, nA, nB>>

pB == <<nB>>

pW == <<nW>>

pWA == <<nW, nA>>

\* --root: the scan root is a directory named "b"
RootPath == <<nB>>

\* no real path: a dangling link, a missing component
NoPath == << <<>> >>

\* kind: what lstat reports; ok: a directory can be listed, a file can be
\* statted; ftok: the entry can be read and classified; target: a symlink's
\* real path; mtime < 0: the modification time is unavailable
Node(kind, ok, ftok, target, mtime, size) ==
  [kind |-> kind, ok |-> ok, ftok |-> ftok, target |-> target,
   mtime |-> mtime, size |-> size]

Absent == Node("absent", FALSE, FALSE, NoPath, 0, 0)

Dir(ok) == Node("dir", ok, TRUE, NoPath, 7, 64)

File(ok) == Node("file", ok, TRUE, NoPath, 5, 10)

FileNoMtime == Node("file", TRUE, TRUE, NoPath, -1, 3)

FileNoType == Node("file", TRUE, FALSE, NoPath, 5, 10)

Link(target) == Node("symlink", TRUE, TRUE, target, 6, 1)

Other == Node("other", TRUE, TRUE, NoPath, 4, 0)

Tree(k0, k1, k2, k3, k4, k5, k6) ==
  (pRoot :> k0) @@ (pA :> k1) @@ (pAB :> k2) @@ (pABA :> k3) @@
  (pABAB :> k4) @@ (pW :> k5) @@ (pWA :> k6) @@ (pB :> File(TRUE))

\* the trees a scan starts on: the root holds the file b, the entry a and
\* perhaps the directory * with its file a
Trees ==
  { Tree(Dir(FALSE), File(TRUE), Absent, Absent, Absent, Dir(TRUE), File(TRUE)) }
  \cup
  { Tree(Dir(TRUE), k1, Absent, Absent, Absent, k5,
         IF k5 = Absent THEN Absent ELSE FileNoMtime) :
      k1 \in {File(TRUE), Link(pW), Other}, k5 \in {Dir(TRUE), Absent} }
  \cup
  { Tree(Dir(TRUE), k1, k2, Absent, Absent, k5,
         IF k5 = Absent THEN Absent ELSE FileNoMtime) :
      k1 \in {Dir(TRUE), Dir(FALSE)},
      k2 \in {File(TRUE), File(FALSE), Link(pRoot), Absent},
      k5 \in {Dir(TRUE), Absent} }
  \cup
  { Tree(Dir(TRUE), k1, Dir(TRUE), k3, IF k3 = Dir(TRUE) THEN File(TRUE) ELSE Absent,
         k5, IF k5 = Absent THEN Absent ELSE FileNoMtime) :
      k1 \in {Dir(TRUE), Dir(FALSE)},
      k3 \in {Dir(TRUE), File(TRUE), FileNoType, Absent},
      k5 \in {Dir(TRUE), Absent} }

Exists(F, rp) == rp \in DOMAIN F /\ F[rp].kind # "absent"

\* the node a path names when its last component is followed (one hop: no
\* link of the model points at a link)
Deref(F, rp) ==
  IF Exists(F, rp) /\ F[rp].kind = "symlink" THEN F[rp].target ELSE rp

\* the real path of the entry name in the directory that par names, or NoPath
Child(F, par, name) ==
  LET d == Deref(F, par)
  IN  IF par = NoPath \/ ~Exists(F, d) THEN NoPath
      ELSE IF F[d].kind # "dir" THEN NoPath
      ELSE IF Exists(F, Append(d, name)) THEN Append(d, name)
      ELSE NoPath

\* the real path of a root-relative path, its last component not followed
\* (the parent is resolved once and bound, then the last step is taken)
RECURSIVE Resolve(_, _)
Resolve(F, rel) ==
  IF rel = <<>> THEN pRoot
  ELSE CHOOSE rp \in { Child(F, par, Last(rel)) :
                         par \in { Resolve(F, Front(rel)) } } : TRUE

\* Path::strip_prefix
StripPrefix(path, root) ==
  IF StartsWith(path, root)
  THEN [ok |-> TRUE, rel |-> SubSeq(path, Len(root) + 1, Len(path))]
  ELSE [ok |-> FALSE, rel |-> <<>>]

RelOf(path) == StripPrefix(path, RootPath).rel

\* the type of the node at the real path rp, a final link followed
TypeFollowingAt(F, rp) ==
  IF rp = NoPath \/ ~Exists(F, Deref(F, rp)) THEN "err"
  ELSE IF ~F[rp].ftok THEN "err"
  ELSE F[Deref(F, rp)].kind

\* entry.file_type() through stat: a link is reported as what it points at
FileTypeFollowing(F, path) ==
  CHOOSE t \in { TypeFollowingAt(F, rp) : rp \in { Resolve(F, RelOf(path)) } } : TRUE

\* the type of the node at the real path rp itself
TypeAt(F, rp) ==
  IF rp = NoPath THEN "err"
  ELSE IF ~F[rp].ftok THEN "err"
  ELSE F[rp].kind

\* entry_res and entry.file_type(): the entry's own type, a link not followed;
\* "err" when the entry cannot be read or classified
FileTypeOf(F, path) ==
  CHOOSE t \in { TypeAt(F, rp) : rp \in { Resolve(F, RelOf(path)) } } : TRUE

\* FileType::is_dir, is_file, is_symlink: at most one of them holds
IsDir(ft) == ft = "dir"

\* an is_file that takes everything but a directory for a file
IsFileLoose(ft) == ft # "dir"

IsFile(ft) == ft = "file"

IsSymlink(ft) == ft = "symlink"

\* the listing of the node at the real path d
ReadDirAt(F, d) ==
  IF d # NoPath /\ Exists(F, d) /\ F[d].kind = "dir" /\ F[d].ok
  THEN [ok |-> TRUE,
        names |-> { Last(c) : c \in { c \in DOMAIN F :
                      c # <<>> /\ Front(c) = d /\ Exists(F, c) } }]
  ELSE [ok |-> FALSE, names |-> {}]

\* fs::read_dir: the names of the children, or a failure; links are followed
ReadDir(F, path) ==
  CHOOSE r \in { ReadDirAt(F, d) : d \in { Deref(F, Resolve(F, RelOf(path))) } } : TRUE

\* the metadata of the node at the real path d
MetadataAt(F, d) ==
  IF d # NoPath /\ Exists(F, d) /\ (F[d].kind # "file" \/ F[d].ok)
  THEN [ok |-> TRUE, kind |-> F[d].kind, mtime |-> F[d].mtime, size |-> F[d].size]
  ELSE [ok |-> FALSE, kind |-> "none", mtime |-> 0, size |-> 0]

\* fs::metadata: the metadata of what the path names, links followed
Metadata(F, path) ==
  CHOOSE m \in { MetadataAt(F, d) : d \in { Deref(F, Resolve(F, RelOf(path))) } } : TRUE

\* meta.modified() ... unwrap_or(0)
Mtime(meta) == IF meta.mtime < 0 THEN 0 ELSE meta.mtime

\* the line written for a file; kind is the type of the metadata it was made of
Record(path, meta) ==
  [path |-> path, mtime |-> Mtime(meta), size |-> meta.size, kind |-> meta.kind]

RECURSIVE Join(_)
Join(rel) ==
  IF rel = <<>> THEN <<>>
  ELSE IF Len(rel) = 1 THEN rel[1]
  ELSE rel[1] \o <<"/">> \o Join(Tail(rel))

\* rel.to_string_lossy().replace('\\', "/")
RelPosix(rel) == ReplaceBackslash(Join(rel))

----------------------------------------------------------------------------
(* scan_dir.                                                               *)

\* the raw values of --exclude-dir a scan is started with
ExcludeArgs ==
  { <<>>,
    << nA >>,
    << nB >>,
    << <<" ", "a", "\\", "b", "/">> >>,
    << <<"a", "/", "b", "/", "*", "*">> >>,
    << nW >>,
    << nW, nA >>,
    << <<" ">>, <<"a", "/", "b">> >> }

Frame(current, depth) ==
  [current |-> current, depth |-> depth, pc |-> "enter", entries |-> {},
   entry |-> <<>>]

Top == stack[Len(stack)]

Running == stack # <<>>

\* a depth test that is one too generous
DepthExceededLate(depth, o) == depth > o.max_depth + 1

\* a depth test that is one too strict
DepthExceededEarly(depth, o) == depth >= o.max_depth

\* if depth > opts.max_depth
DepthExceeded(depth, o) == depth > o.max_depth

\* a listing failure reported to the caller
ListFailErr == "Err"

\* Err(_) => return Ok(())
ListFailResult == "Ok"

\* !opts.follow_symlinks && ft.is_symlink()
SkipSymlink(ft, o) == ~o.follow_symlinks /\ IsSymlink(ft)

\* let rel_posix = ...; let dir_name = ...; should_exclude_dir(&dir_name,
\* &rel_posix, &opts.exclude_dirs)
ExcludedEntry(o, path, rel) ==
  \E dir_name \in { Last(path) }, rel_posix \in { RelPosix(rel) } :
    should_exclude_dir(dir_name, rel_posix, o.exclude_dirs)

\* what the loop body does with an entry of type ft at path
ClassifyAs(ft, o, path) ==
  LET sp == StripPrefix(path, o.root)
  IN  IF ft = "err" THEN "skip"
      ELSE IF ~sp.ok THEN "skip"
      ELSE IF IsDir(ft)
           THEN IF ExcludedEntry(o, path, sp.rel)
                THEN "prune"
                ELSE IF SkipSymlink(ft, o) THEN "prune"
                ELSE "descend"
      ELSE IF IsFile(ft) THEN "file"
      ELSE "skip"

\* the loop body's way with the entry at path (its type is fetched once)
Classify(F, o, path) ==
  CHOOSE c \in { ClassifyAs(ft, o, path) : ft \in { FileTypeOf(F, path) } } : TRUE

\* main: exit(1) on Err, fall off the end on Ok
ExitCode(r) == IF r = "Err" THEN 1 ELSE 0

\* the top call returns r: main takes the root call's result, a parent
\* drops its child's (let _ = scan_dir(...)) and goes on with its loop
ReturnFrom(r) ==
  IF Len(stack) = 1
  THEN /\ stack' = <<>>
       /\ exit' = [done |-> TRUE, code |-> ExitCode(r)]
  ELSE /\ stack' = Front(stack)
       /\ exit' = exit

SetTop(f) == [stack EXCEPT ![Len(stack)] = f]

Init ==
  /\ fs \in Trees
  /\ \E d \in 0..MaxDepth, fl \in BOOLEAN, ex \in ExcludeArgs :
       opts = [root |-> RootPath, max_depth |-> d, follow_symlinks |-> fl,
               exclude_dirs |-> ParseExcludeDirs(ex)]
  /\ stack = << Frame(RootPath, 0) >>
  /\ out = <<>>
  /\ sink \in { [failing |-> FALSE, left |-> 0] }
              \cup { [failing |-> TRUE, left |-> k] : k \in 0..MaxAccept }
  /\ writeFailed = FALSE
  /\ listed = {}
  /\ exit = [done |-> FALSE, code |-> 0]
  /\ mIn = [dir_name |-> <<>>, rel_posix |-> <<>>, patterns |-> <<>>]
  /\ mOut = [done |-> FALSE, value |-> FALSE]
  /\ changes = 0

\* depth > max_depth: return Ok(()) before listing
EnterTooDeep ==
  /\ Running
  /\ Top.pc = "enter"
  /\ DepthExceeded(Top.depth, opts)
  /\ ReturnFrom("Ok")
  /\ UNCHANGED <<fs, opts, out, sink, writeFailed, listed, mIn, mOut, changes>>

\* fs::read_dir(current) fails
EnterListFail ==
  /\ Running
  /\ Top.pc = "enter"
  /\ ~DepthExceeded(Top.depth, opts)
  /\ ~ReadDir(fs, Top.current).ok
  /\ listed' = listed \cup { [path |-> Top.current, depth |-> Top.depth] }
  /\ ReturnFrom(ListFailResult)
  /\ UNCHANGED <<fs, opts, out, sink, writeFailed, mIn, mOut, changes>>

\* fs::read_dir(current) succeeds: the loop starts
EnterList ==
  /\ Running
  /\ Top.pc = "enter"
  /\ ~DepthExceeded(Top.depth, opts)
  /\ ReadDir(fs, Top.current).ok
  /\ listed' = listed \cup { [path |-> Top.current, depth |-> Top.depth] }
  /\ stack' = SetTop([Top EXCEPT !.pc = "loop",
                                 !.entries = ReadDir(fs, Top.current).names])
  /\ UNCHANGED <<fs, opts, out, sink, writeFailed, exit, mIn, mOut, changes>>

\* an entry that is unreadable, or neither a directory nor a regular file
SkipEntry ==
  /\ Running
  /\ Top.pc = "loop"
  /\ \E e \in Top.entries :
       /\ Classify(fs, opts, Append(Top.current, e)) = "skip"
       /\ stack' = SetTop([Top EXCEPT !.entries = @ \ {e}])
  /\ UNCHANGED <<fs, opts, out, sink, writeFailed, listed, exit, mIn, mOut, changes>>

\* a directory that is excluded (or a link not to be followed)
PruneDir ==
  /\ Running
  /\ Top.pc = "loop"
  /\ \E e \in Top.entries :
       /\ Classify(fs, opts, Append(Top.current, e)) = "prune"
       /\ stack' = SetTop([Top EXCEPT !.entries = @ \ {e}])
  /\ UNCHANGED <<fs, opts, out, sink, writeFailed, listed, exit, mIn, mOut, changes>>

\* let _ = scan_dir(root, &path, depth + 1, opts, out)
Descend ==
  /\ Running
  /\ Top.pc = "loop"
  /\ \E e \in Top.entries :
       /\ Classify(fs, opts, Append(Top.current, e)) = "descend"
       /\ stack' = Append(SetTop([Top EXCEPT !.entries = @ \ {e}]),
                          Frame(Append(Top.current, e), Top.depth + 1))
  /\ UNCHANGED <<fs, opts, out, sink, writeFailed, listed, exit, mIn, mOut, changes>>

\* ft.is_file(): the entry is about to be statted
FoundFile ==
  /\ Running
  /\ Top.pc = "loop"
  /\ \E e \in Top.entries :
       /\ Classify(fs, opts, Append(Top.current, e)) = "file"
       /\ stack' = SetTop([Top EXCEPT !.entries = @ \ {e}, !.pc = "stat",
                                      !.entry = e])
  /\ UNCHANGED <<fs, opts, out, sink, writeFailed, listed, exit, mIn, mOut, changes>>

\* fs::metadata(&path) fails: continue
StatFail ==
  /\ Running
  /\ Top.pc = "stat"
  /\ ~Metadata(fs, Append(Top.current, Top.entry)).ok
  /\ stack' = SetTop([Top EXCEPT !.pc = "loop", !.entry = <<>>])
  /\ UNCHANGED <<fs, opts, out, sink, writeFailed, listed, exit, mIn, mOut, changes>>

SinkAccepts == ~sink.failing \/ sink.left > 0

\* writeln!(out, ...) succeeds
Emit ==
  /\ Running
  /\ Top.pc = "stat"
  /\ Metadata(fs, Append(Top.current, Top.entry)).ok
  /\ SinkAccepts
  /\ out' = Append(out, Record(Append(Top.current, Top.entry),
                               Metadata(fs, Append(Top.current, Top.entry))))
  /\ sink' = IF sink.failing THEN [sink EXCEPT !.left = @ - 1] ELSE sink
  /\ stack' = SetTop([Top EXCEPT !.pc = "loop", !.entry = <<>>])
  /\ UNCHANGED <<fs, opts, writeFailed, listed, exit, mIn, mOut, changes>>

\* writeln!(out, ...)? fails: this call returns Err
WriteFail ==
  /\ Running
  /\ Top.pc = "stat"
  /\ Metadata(fs, Append(Top.current, Top.entry)).ok
  /\ ~SinkAccepts
  /\ writeFailed' = TRUE
  /\ ReturnFrom("Err")
  /\ UNCHANGED <<fs, opts, out, sink, listed, mIn, mOut, changes>>

\* the loop is over: Ok(())
LoopDone ==
  /\ Running
  /\ Top.pc = "loop"
  /\ Top.entries = {}
  /\ ReturnFrom("Ok")
  /\ UNCHANGED <<fs, opts, out, sink, writeFailed, listed, mIn, mOut, changes>>

Next ==
  \/ EnterTooDeep
  \/ EnterListFail
  \/ EnterList
  \/ SkipEntry
  \/ PruneDir
  \/ Descend
  \/ FoundFile
  \/ StatFail
  \/ Emit
  \/ WriteFail
  \/ LoopDone

Spec == Init /\ [][Next]_vars

\* the one thread of the scan always takes its next step
FairSpec == Spec /\ WF_vars(Next)

----------------------------------------------------------------------------
(* A scan racing with another process that changes the tree.               *)

\* another process replaces a regular file by a directory, or by a link to one
EnvReplace ==
  /\ Running
  /\ changes < MaxChanges
  /\ \E p \in DOMAIN fs, n \in {Dir(TRUE), Link(pW)} :
       /\ fs[p].kind = "file"
       /\ fs' = [fs EXCEPT ![p] = n]
  /\ changes' = changes + 1
  /\ UNCHANGED <<opts, stack, out, sink, writeFailed, listed, exit, mIn, mOut>>

NextRace == Next \/ EnvReplace

SpecRace == Init /\ [][NextRace]_vars

----------------------------------------------------------------------------
(* should_exclude_dir on its own.                                          *)

SeqsUpTo(S, n) == UNION { [1..k -> S] : k \in 0..n }

\* raw --exclude-dir values of the matcher runs
MatchArgs ==
  { nA, nB, nW,
    <<" ", "a", "\\", "b", "/">>,
    <<"a", "/", "b", "/", "*", "*">>,
    <<"a", "?">>,
    <<"[">>,
    <<"/">>,
    <<" ">> }

\* root-relative directories of the matcher runs
MatchRels ==
  { pA, pAB, pABA, pW, <<nB>>, <<nA, <<"a", "?">> >>, << <<"[">> >> }

InitMatch ==
  /\ fs = Tree(Dir(FALSE), Absent, Absent, Absent, Absent, Absent, Absent)
  /\ opts = [root |-> RootPath, max_depth |-> 0, follow_symlinks |-> FALSE,
             exclude_dirs |-> <<>>]
  /\ stack = <<>>
  /\ out = <<>>
  /\ sink = [failing |-> FALSE, left |-> 0]
  /\ writeFailed = FALSE
  /\ listed = {}
  /\ exit = [done |-> FALSE, code |-> 0]
  /\ \E rel \in MatchRels, raw \in SeqsUpTo(MatchArgs, MaxPatterns) :
       mIn = [dir_name |-> Last(rel), rel_posix |-> RelPosix(rel),
              patterns |-> ParseExcludeDirs(raw)]
  /\ mOut = [done |-> FALSE, value |-> FALSE]
  /\ changes = 0

CallMatch ==
  /\ ~mOut.done
  /\ mOut' = [done |-> TRUE,
              value |-> should_exclude_dir(mIn.dir_name, mIn.rel_posix, mIn.patterns)]
  /\ UNCHANGED <<scanVars, mIn, changes>>

SpecMatch == InitMatch /\ [][CallMatch]_vars

----------------------------------------------------------------------------
(* What the claims speak of.                                               *)

Done == exit.done

Emitted == { out[i].path : i \in DOMAIN out }

\* path lies strictly below the directory dir
Beneath(path, dir) == StartsWith(path, dir) /\ Len(path) > Len(dir)

\* the depth of a file: that of its directory, the root being at depth 0
FileDepth(path) == Len(RelOf(path)) - 1

\* the real directories of the tree, the root among them
RealDirs(F) == { rp \in DOMAIN F : F[rp].kind = "dir" }

\* the matcher's verdict on the directory at the real path rp
Excluded(o, rp) == should_exclude_dir(Last(rp), RelPosix(rp), o.exclude_dirs)

\* every directory from the root down to rp can be listed and is a real,
\* classifiable directory, and none below the root is excluded
ChainOpen(F, o, rp) ==
  \A k \in 0..Len(rp) :
    LET d == SubSeq(rp, 1, k)
    IN  /\ Exists(F, d)
        /\ F[d].kind = "dir"
        /\ F[d].ok
        /\ k > 0 => (F[d].ftok /\ ~Excluded(o, d))

\* the regular files a scan of F is to report, whatever the depth
Reportable(F, o) ==
  { rp \in DOMAIN F :
      /\ rp # <<>>
      /\ F[rp].kind = "file"
      /\ F[rp].ftok
      /\ F[rp].ok
      /\ ChainOpen(F, o, Front(rp)) }

\* ... and within the depth bound
Expected(F, o) == { rp \in Reportable(F, o) : Len(rp) - 1 <= o.max_depth }

\* the tree with every unlistable directory made an empty, listable one
EmptyUnreadable(F) ==
  [ p \in DOMAIN F |->
      IF \E k \in 0..(Len(p) - 1) :
           LET d == SubSeq(p, 1, k)
           IN  F[d].kind = "dir" /\ ~F[d].ok
      THEN Absent
      ELSE IF F[p].kind = "dir" /\ ~F[p].ok THEN Dir(TRUE)
      ELSE F[p] ]

\* no component of the root-relative part of path is a symlink
NoLinkOn(F, path) ==
  \A k \in 1..Len(RelOf(path)) :
    LET rp == Resolve(F, SubSeq(RelOf(path), 1, k))
    IN  rp # NoPath /\ F[rp].kind # "symlink"

WasListed(path) == \E l \in listed : l.path = path

----------------------------------------------------------------------------
(* The claims.                                                             *)

\* C1: once a write of a record to the sink has failed, in the root or in a
\* nested directory, the scan fails and the process exits with code 1.
C1_WriteFailureExitsOne == (Done /\ writeFailed) => exit.code = 1

\* the root-relative paths of at most MaxDepth + 1 components
LinkRels == UNION { [1..k -> {nA, nB, nW}] : k \in 1..(MaxDepth + 1) }

\* rel names a regular file that can be statted, through at least one
\* symlinked directory, every directory on the way listable and not excluded
LinkedFile(F, o, rel) ==
  /\ Resolve(F, rel) # NoPath
  /\ F[Resolve(F, rel)].kind = "file"
  /\ F[Resolve(F, rel)].ftok
  /\ F[Resolve(F, rel)].ok
  /\ \E k \in 1..(Len(rel) - 1) :
       F[Resolve(F, SubSeq(rel, 1, k))].kind = "symlink"
  /\ F[pRoot].ok
  /\ \A k \in 1..(Len(rel) - 1) :
       LET pre == SubSeq(rel, 1, k)
       IN  /\ F[Deref(F, Resolve(F, pre))].ok
           /\ F[Resolve(F, pre)].ftok
           /\ ~should_exclude_dir(Last(pre), RelPosix(pre), o.exclude_dirs)

\* C2: with follow_symlinks = true, every regular file reachable only through
\* a symlinked directory, its directory at depth <= max_depth and not
\* excluded, is emitted.
C2_LinkedFilesEmitted ==
  (Done /\ opts.follow_symlinks /\ ~writeFailed) =>
    \A rel \in LinkRels :
      (LinkedFile(fs, opts, rel) /\ Len(rel) - 1 <= opts.max_depth)
        => (opts.root \o rel) \in Emitted

\* C8: every record is made of the metadata of a regular file, also when
\* another process changes the tree between classification and stat; never of
\* the metadata of a directory or of a symlink's target.
C8_RecordsOfRegularFiles == \A i \in DOMAIN out : out[i].kind = "file"

\* C3: with follow_symlinks = false no directory reached through a symlink is
\* listed, and no file below a symlink is emitted.
C3_NoLinkListed ==
  ~opts.follow_symlinks =>
    /\ \A l \in listed : NoLinkOn(fs, l.path)
    /\ \A i \in DOMAIN out : NoLinkOn(fs, out[i].path)

\* a finished scan without follow_symlinks that met, in a directory it listed,
\* a link to a listable directory holding a file, and was not told to exclude it
C3_Witness ==
  /\ Done
  /\ ~opts.follow_symlinks
  /\ ~writeFailed
  /\ fs[pA].kind = "symlink"
  /\ ReadDir(fs, opts.root \o pA).names # {}
  /\ WasListed(opts.root)
  /\ opts.max_depth >= 1
  /\ ~Excluded(opts, pA)

\* C4: with max_depth = d no directory deeper than d is listed and no file
\* deeper than d is emitted, and the files at depth exactly d are emitted.
C4_DepthBound ==
  /\ \A l \in listed :
       /\ l.depth = Len(RelOf(l.path))
       /\ l.depth <= opts.max_depth
  /\ \A i \in DOMAIN out : FileDepth(out[i].path) <= opts.max_depth
  /\ (Done /\ ~writeFailed) =>
       \A rp \in Reportable(fs, opts) :
         Len(rp) - 1 = opts.max_depth => (opts.root \o rp) \in Emitted

\* a finished scan that emitted a file at depth exactly max_depth and left out
\* a reportable file lying deeper
C4_Witness ==
  /\ Done
  /\ \E i \in DOMAIN out : FileDepth(out[i].path) = opts.max_depth
  /\ \E rp \in Reportable(fs, opts) :
       /\ Len(rp) - 1 > opts.max_depth
       /\ (opts.root \o rp) \notin Emitted

\* the claim's test: the directory's bare name or root-relative path equals
\* the normalized token of some pattern, or its path is nested beneath one
NamedByToken(o, dir) ==
  \E i \in DOMAIN o.exclude_dirs :
    LET token == normalize_pattern_token(o.exclude_dirs[i])
    IN  \/ Last(dir) = token
        \/ RelPosix(RelOf(dir)) = token
        \/ StartsWith(RelPosix(RelOf(dir)), token \o <<"/">>)

\* ... by a token that holds none of the characters * ? [
NamedByLiteralToken(o, dir) ==
  \E i \in DOMAIN o.exclude_dirs :
    LET token == normalize_pattern_token(o.exclude_dirs[i])
    IN  /\ ~Contains(token, "*") /\ ~Contains(token, "?") /\ ~Contains(token, "[")
        /\ \/ Last(dir) = token
           \/ RelPosix(RelOf(dir)) = token
           \/ StartsWith(RelPosix(RelOf(dir)), token \o <<"/">>)

\* C5 as claimed: below every directory (the root among them) that the tokens
\* name, no file is emitted.
C5_NamedDirsPruned ==
  \A rp \in RealDirs(fs) :
    NamedByToken(opts, opts.root \o rp) =>
      \A i \in DOMAIN out : ~Beneath(out[i].path, opts.root \o rp)

\* C5 as amended: below every directory other than the scan root that a token
\* free of * ? [ names, no file is emitted.
C5_LiteralNamedDirsPruned ==
  \A rp \in RealDirs(fs) \ {pRoot} :
    NamedByLiteralToken(opts, opts.root \o rp) =>
      \A i \in DOMAIN out : ~Beneath(out[i].path, opts.root \o rp)

\* a finished scan that listed the parent of a directory named by its path
\* (not by its bare name), with a file in it that would otherwise be reported
C5_Witness ==
  /\ Done
  /\ ~writeFailed
  /\ NamedByLiteralToken(opts, opts.root \o pAB)
  /\ \A i \in DOMAIN opts.exclude_dirs :
       normalize_pattern_token(opts.exclude_dirs[i]) # nB
  /\ WasListed(opts.root \o pA)
  /\ pABA \in Reportable(fs, [opts EXCEPT !.exclude_dirs = <<>>])
  /\ opts.max_depth >= 2

\* the patterns whose normalized token holds one of * ? [
WildArgs == { a \in MatchArgs : HasWildcard(normalize_pattern_token(a)) }

InsertAt(ps, i, w) == SubSeq(ps, 1, i) \o <<w>> \o SubSeq(ps, i + 1, Len(ps))

\* C6: patterns whose token holds * ? or [ exclude nothing: alone they give
\* false, and added to a pattern list they leave the result as it was.
C6_WildcardsMatchNothing ==
  mOut.done =>
    /\ (\A i \in DOMAIN mIn.patterns :
          HasWildcard(normalize_pattern_token(mIn.patterns[i])))
         => mOut.value = FALSE
    /\ \A w \in WildArgs, i \in 0..Len(mIn.patterns) :
         should_exclude_dir(mIn.dir_name, mIn.rel_posix,
                            InsertAt(mIn.patterns, i, w)) = mOut.value

\* a call whose patterns all hold a wildcard, one of them equal, character
\* for character, to the directory's name
C6_Witness ==
  /\ mOut.done
  /\ mIn.patterns # <<>>
  /\ \A i \in DOMAIN mIn.patterns :
       HasWildcard(normalize_pattern_token(mIn.patterns[i]))
  /\ \E i \in DOMAIN mIn.patterns :
       normalize_pattern_token(mIn.patterns[i]) = mIn.dir_name

\* C7: a directory that cannot be listed is taken for an empty one: nothing
\* below it is emitted, the scan goes on, and with a sink that never fails it
\* ends with exit code 0 and the records of the tree with that directory empty.
C7_ListFailureIsEmpty ==
  /\ \A l \in listed :
       ~ReadDir(fs, l.path).ok =>
         \A i \in DOMAIN out : ~Beneath(out[i].path, l.path)
  /\ (Done /\ ~sink.failing) =>
       /\ exit.code = 0
       /\ { RelOf(out[i].path) : i \in DOMAIN out }
            = Expected(EmptyUnreadable(fs), opts)
  /\ (Done /\ ~fs[pRoot].ok) => (exit.code = 0 /\ out = <<>>)

\* a finished scan that failed to list a subdirectory holding entries and
\* emitted a record from a sibling directory
C7_Witness ==
  /\ Done
  /\ ~sink.failing
  /\ \E l \in listed : l.depth >= 1 /\ ~ReadDir(fs, l.path).ok
  /\ Exists(fs, pAB)
  /\ (opts.root \o pWA) \in Emitted

\* C9: on an unchanging tree, with a sink that never fails and without
\* follow_symlinks, the scan emits exactly one record, made of the file's own
\* metadata, for each regular file that can be statted and whose directory is
\* within max_depth and reached through listable, non-excluded real
\* directories, and no record for anything else.
C9_ExactlyTheRegularFiles ==
  (Done /\ ~sink.failing /\ ~opts.follow_symlinks) =>
    /\ \A i, j \in DOMAIN out : out[i].path = out[j].path => i = j
    /\ \A i \in DOMAIN out :
         /\ StartsWith(out[i].path, opts.root)
         /\ out[i] = Record(out[i].path, Metadata(fs, out[i].path))
         /\ out[i].kind = "file"
    /\ { RelOf(out[i].path) : i \in DOMAIN out } = Expected(fs, opts)

\* a finished scan that emitted two records and passed over an entry that is
\* no regular file, or one whose metadata could not be fetched
C9_Witness ==
  /\ Done
  /\ ~sink.failing
  /\ ~opts.follow_symlinks
  /\ Len(out) >= 2
  /\ \E rp \in DOMAIN fs :
       /\ rp # <<>>
       /\ WasListed(opts.root \o Front(rp))
       /\ \/ fs[rp].kind \in {"symlink", "other"}
          \/ fs[rp].kind = "file" /\ ~fs[rp].ok

\* the calls nest no deeper than max_depth + 1, and one at that depth has
\* not listed and will not
NestingBounded ==
  /\ Len(stack) <= opts.max_depth + 2
  /\ \A i \in DOMAIN stack :
       /\ stack[i].depth = i - 1
       /\ stack[i].depth > opts.max_depth => stack[i].pc = "enter"
  /\ \A l \in listed : l.depth # opts.max_depth + 1

\* C10: every scan returns, also on a tree with a symlink cycle and with
\* follow_symlinks = true; the calls never nest deeper than max_depth + 1 and
\* a call at depth max_depth + 1 returns without listing.
C10_ScanReturns == <>Done /\ []NestingBounded

\* a finished scan with follow_symlinks = true that listed a directory
\* holding a link back to the root
C10_Witness ==
  /\ Done
  /\ opts.follow_symlinks
  /\ fs[pAB].kind = "symlink"
  /\ fs[pAB].target = pRoot
  /\ WasListed(opts.root \o pA)

====
